---- MODULE Spec2Model ----
(***************************************************************************)
(* Model of QCoro::detail::QCoroFuture<T> (qcoro/core/qcorofuture.h): the  *)
(* awaiter that bridges a QFuture<T> to a coroutine.                       *)
(*                                                                         *)
(* One QFuture is shared by the producer and by the await operations.      *)
(* Each await operation runs await_ready, then either goes straight to     *)
(* await_resume or runs await_suspend, which creates a QFutureWatcher, a   *)
(* shared atomic<bool> `done` and two connections whose slot is the        *)
(* `resume` lambda.  The lambda is modelled statement by statement so that *)
(* the two slots (finished, canceled) of one watcher can interleave.       *)
(***************************************************************************)
EXTENDS Integers, FiniteSets, Sequences, TLC

\* ---------------------------------------------------------------- bounds
MaxValue == 1          \* results the producer may report are 0..MaxValue
MaxError == 1          \* stored exceptions are 1..MaxError
MaxDeliver == 2        \* call-out events queued per watcher and channel

Awaits == {1, 2}       \* await operations on the one future
Channels == {"finished", "canceled"}
Values == 0..MaxValue
NoError == 0
Errors == 1..MaxError
DefaultValue == 0      \* T{} of the default-constructible result type

\* T of QCoroFuture<T>: void, default-constructible, not default-constructible
Shapes == {"void", "dc", "ndc"}
\* entry points of QCoroFuture<T>
Ops == {"waitForFinished", "result", "takeResult"}

VARIABLES
    TShape,      \* the shape of T
    mFuture,     \* the shared state behind QFuture<T> mFuture
    active,      \* the await operations that take place in this run
    op,          \* op[a]: the entry point await a was created by
    pc,          \* pc[a]: position of the awaiting coroutine
    ready,       \* ready[a]: await_ready returned "true" | "false",
                 \*           "unknown" before the call
    checked,     \* checked[a]: the future as await_ready found it
    seen,        \* seen[a]: the future as await_resume found it
    watcher,     \* watcher[a]: "none" | "alive" | "deleted"
    attached,    \* attached[a]: watcher->setFuture(mFuture) was called
    done,        \* done[a]: "none" | "unset" | "set" (the atomic<bool>)
    conn,        \* conn[a][ch]: "none" | "connected" | "disconnected"
    pending,     \* pending[a][ch]: call-out events queued for the watcher
    cb,          \* cb[a][ch]: position of the resume lambda run by channel ch
    wins,        \* wins[a]: successful compare_exchange_strong calls
    lost,        \* lost[a]: some compare_exchange_strong call failed
    returned,    \* returned[a]: some run of the lambda has returned
    deleteLater, \* deleteLater[a]: calls of watcher->deleteLater()
    resumed,     \* resumed[a]: calls of awaitingCoroutine.resume()
    synced,      \* synced[a]: "no" | "nonblocking" | "blocking"
    outcome      \* outcome[a]: what await_resume returned or threw

vars == << TShape, mFuture, active, op, pc, ready, checked, seen, watcher,
           attached, done, conn, pending, cb, wins, lost, returned,
           deleteLater, resumed, synced, outcome >>

futureVars == << TShape, mFuture >>
awaitVars == << active, op, pc, ready, checked, seen, outcome, synced >>
awaitRest == << active, op, ready, checked, seen, outcome, synced >>
watcherVars == << watcher, attached, done, conn, pending, cb, wins, lost,
                  returned, deleteLater, resumed >>

NoOutcome == [kind |-> "none", val |-> 0]

\* ------------------------------------------------------- QFuture queries
isFinished(f) == f.isFinished
isCanceled(f) == f.isCanceled
isResultReadyAt0(f) == f.resultReady

PendingFuture ==
    [isFinished |-> FALSE, isCanceled |-> FALSE, resultReady |-> FALSE,
     result |-> 0, exception |-> NoError]

\* ------------------------------------------------------------ the awaiter
\* await_ready that never suspends
await_ready_always(f) == TRUE

\* await_ready that forgets the canceled future
await_ready_onlyFinished(f) == isFinished(f)

\* WaitForFinishedOperationBase::await_ready
await_ready(f) == isFinished(f) \/ isCanceled(f)

\* mFuture.waitForFinished() in await_resume: re-throws the stored exception
waitForFinishedThrows(f) == f.exception # NoError

\* await_resume that looks at isCanceled() before isFinished()
ImplT_await_resume_canceledFirst(f, shape) ==
    IF isCanceled(f) \/ ~isFinished(f)
    THEN IF shape = "dc"
         THEN [kind |-> "Default", val |-> DefaultValue]
         ELSE [kind |-> "InvalidOrCanceled", val |-> 0]
    ELSE IF waitForFinishedThrows(f)
         THEN [kind |-> "Propagated", val |-> f.exception]
         ELSE IF ~isResultReadyAt0(f)
              THEN [kind |-> "ResultNotReady", val |-> 0]
              ELSE [kind |-> "Value", val |-> f.result]

\* await_resume with the two not-finished branches the wrong way round
ImplT_await_resume_swapped(f, shape) ==
    IF isFinished(f)
    THEN IF waitForFinishedThrows(f)
         THEN [kind |-> "Propagated", val |-> f.exception]
         ELSE IF ~isResultReadyAt0(f)
              THEN [kind |-> "ResultNotReady", val |-> 0]
              ELSE [kind |-> "Value", val |-> f.result]
    ELSE IF shape # "dc"
         THEN [kind |-> "Default", val |-> DefaultValue]
         ELSE [kind |-> "InvalidOrCanceled", val |-> 0]

\* await_resume that falls back to T{} when the finished future has no result
ImplT_await_resume_defaultFallback(f, shape) ==
    IF isFinished(f) /\ (waitForFinishedThrows(f) \/ isResultReadyAt0(f))
    THEN IF waitForFinishedThrows(f)
         THEN [kind |-> "Propagated", val |-> f.exception]
         ELSE [kind |-> "Value", val |-> f.result]
    ELSE IF shape = "dc"
         THEN [kind |-> "Default", val |-> DefaultValue]
         ELSE [kind |-> "InvalidOrCanceled", val |-> 0]

\* WaitForFinishedOperationImplT::await_resume
ImplT_await_resume(f, shape) ==
    IF isFinished(f)
    THEN IF waitForFinishedThrows(f)
         THEN [kind |-> "Propagated", val |-> f.exception]
         ELSE IF ~isResultReadyAt0(f)
              THEN [kind |-> "ResultNotReady", val |-> 0]
              ELSE [kind |-> "Value", val |-> f.result]
    ELSE IF shape = "dc"
         THEN [kind |-> "Default", val |-> DefaultValue]
         ELSE [kind |-> "InvalidOrCanceled", val |-> 0]

\* await_resume of the void variant without the waitForFinished() call
ImplVoid_await_resume_silent(f) == [kind |-> "Void", val |-> 0]

\* WaitForFinishedOperationImplVoid::await_resume
ImplVoid_await_resume(f) ==
    IF isFinished(f) /\ waitForFinishedThrows(f)
    THEN [kind |-> "Propagated", val |-> f.exception]
    ELSE [kind |-> "Void", val |-> 0]

\* await_resume of the move variant without the isResultReadyAt(0) check
TakeResult_await_resume_noReadyCheck(f, shape) ==
    IF isFinished(f)
    THEN IF waitForFinishedThrows(f)
         THEN [kind |-> "Propagated", val |-> f.exception]
         ELSE [kind |-> "Value", val |-> f.result]
    ELSE IF shape = "dc"
         THEN [kind |-> "Default", val |-> DefaultValue]
         ELSE [kind |-> "InvalidOrCanceled", val |-> 0]

\* TakeResultOperation::await_resume
TakeResult_await_resume(f, shape) ==
    IF isFinished(f)
    THEN IF waitForFinishedThrows(f)
         THEN [kind |-> "Propagated", val |-> f.exception]
         ELSE IF ~isResultReadyAt0(f)
              THEN [kind |-> "ResultNotReady", val |-> 0]
              ELSE [kind |-> "Value", val |-> f.result]
    ELSE IF shape = "dc"
         THEN [kind |-> "Default", val |-> DefaultValue]
         ELSE [kind |-> "InvalidOrCanceled", val |-> 0]

\* the future after mFuture.takeResult(): the result is moved out
TakeResult_future(f) ==
    IF isFinished(f) /\ ~waitForFinishedThrows(f) /\ isResultReadyAt0(f)
    THEN [f EXCEPT !.resultReady = FALSE, !.result = 0]
    ELSE f

\* mFuture.result() moving the result out like takeResult()
Result_future_moved(f) ==
    IF isFinished(f) /\ ~waitForFinishedThrows(f) /\ isResultReadyAt0(f)
    THEN [f EXCEPT !.resultReady = FALSE, !.result = 0]
    ELSE f

\* the future after mFuture.result(): a copy is returned
Result_future(f) == f

\* std::conditional_t<is_void_v<T>, ImplVoid, ImplT>
WaitForFinishedOperation_await_resume(f, shape) ==
    IF shape = "void" THEN ImplVoid_await_resume(f)
                      ELSE ImplT_await_resume(f, shape)

\* waitForFinished() awaiting the void variant whatever T is
await_resume_voidWait(o, f, shape) ==
    IF o = "takeResult" THEN TakeResult_await_resume(f, shape)
    ELSE IF o = "waitForFinished" THEN ImplVoid_await_resume(f)
    ELSE WaitForFinishedOperation_await_resume(f, shape)

\* await_resume of the operation the entry point co_awaits
await_resume(o, f, shape) ==
    IF o = "takeResult" THEN TakeResult_await_resume(f, shape)
                        ELSE WaitForFinishedOperation_await_resume(f, shape)

\* the future after await_resume of the operation the entry point co_awaits
future_after(o, f) ==
    IF o = "takeResult" THEN TakeResult_future(f) ELSE Result_future(f)

\* await_resume calling mFuture.waitForFinished() outside the isFinished()
\* branch
callsWaitForFinished_always(f) == TRUE

\* does await_resume call mFuture.waitForFinished(): the call sits in the
\* isFinished() branch of all three variants
callsWaitForFinished(f) == isFinished(f)

Min(x, y) == IF x < y THEN x ELSE y

\* ------------------------------------------------------------------ Init
InitCommon ==
    /\ TShape \in Shapes
    /\ mFuture = PendingFuture
    /\ op = [a \in Awaits |-> "none"]
    /\ pc = [a \in Awaits |-> "idle"]
    /\ ready = [a \in Awaits |-> "unknown"]
    /\ checked = [a \in Awaits |-> PendingFuture]
    /\ seen = [a \in Awaits |-> PendingFuture]
    /\ watcher = [a \in Awaits |-> "none"]
    /\ attached = [a \in Awaits |-> FALSE]
    /\ done = [a \in Awaits |-> "none"]
    /\ conn = [a \in Awaits |-> [ch \in Channels |-> "none"]]
    /\ pending = [a \in Awaits |-> [ch \in Channels |-> 0]]
    /\ cb = [a \in Awaits |-> [ch \in Channels |-> "idle"]]
    /\ wins = [a \in Awaits |-> 0]
    /\ lost = [a \in Awaits |-> FALSE]
    /\ returned = [a \in Awaits |-> FALSE]
    /\ deleteLater = [a \in Awaits |-> 0]
    /\ resumed = [a \in Awaits |-> 0]
    /\ synced = [a \in Awaits |-> "no"]
    /\ outcome = [a \in Awaits |-> NoOutcome]

\* one await operation on the future
Init == InitCommon /\ active = {1}

\* ------------------------------------------------------------ the producer
\* the call-out events a state change of the future posts to every watcher
\* the future is set on
Post(ch) ==
    pending' = [a \in Awaits |->
                  IF attached[a] /\ watcher[a] = "alive"
                  THEN [pending[a] EXCEPT ![ch] = Min(@ + 1, MaxDeliver)]
                  ELSE pending[a]]

\* the producer stores the result
reportResult(v) ==
    /\ TShape # "void"
    /\ ~mFuture.isFinished /\ ~mFuture.isCanceled
    /\ ~mFuture.resultReady /\ mFuture.exception = NoError
    /\ mFuture' = [mFuture EXCEPT !.resultReady = TRUE, !.result = v]
    /\ UNCHANGED << TShape, awaitVars, watcherVars >>

\* the producer stores a failure: the result slot holds the exception and the
\* future becomes canceled
reportException(e) ==
    /\ ~mFuture.isFinished /\ ~mFuture.isCanceled
    /\ mFuture' = [mFuture EXCEPT !.exception = e, !.resultReady = FALSE,
                                  !.result = 0, !.isCanceled = TRUE]
    /\ Post("canceled")
    /\ UNCHANGED << TShape, awaitVars, watcher, attached, done, conn, cb,
                    wins, lost, returned, deleteLater, resumed >>

\* the future is canceled
cancel ==
    /\ ~mFuture.isCanceled
    /\ mFuture' = [mFuture EXCEPT !.isCanceled = TRUE]
    /\ Post("canceled")
    /\ UNCHANGED << TShape, awaitVars, watcher, attached, done, conn, cb,
                    wins, lost, returned, deleteLater, resumed >>

\* the producer reports the future finished
reportFinished ==
    /\ ~mFuture.isFinished
    /\ mFuture' = [mFuture EXCEPT !.isFinished = TRUE]
    /\ Post("finished")
    /\ UNCHANGED << TShape, awaitVars, watcher, attached, done, conn, cb,
                    wins, lost, returned, deleteLater, resumed >>

\* --------------------------------------------------------- entry points
Call(a, o) ==
    /\ a \in active
    /\ pc[a] = "idle"
    /\ \A b \in active : b < a => pc[b] # "idle"
    /\ pc' = [pc EXCEPT ![a] = "await_ready"]
    /\ op' = [op EXCEPT ![a] = o]
    /\ UNCHANGED << futureVars, active, ready, checked, seen, outcome, synced,
                    watcherVars >>

\* QCoroFuture::waitForFinished
waitForFinished(a) == Call(a, "waitForFinished")

\* QCoroFuture::result
result(a) == Call(a, "result")

\* QCoroFuture::takeResult, requires (!std::is_void_v<T>)
takeResult(a) == TShape # "void" /\ Call(a, "takeResult")

\* ------------------------------------------------------ the await protocol
\* co_await evaluates await_ready; true skips await_suspend
AwaitReady(a) ==
    /\ pc[a] = "await_ready"
    /\ ready' = [ready EXCEPT ![a] = IF await_ready(mFuture) THEN "true"
                                                             ELSE "false"]
    /\ checked' = [checked EXCEPT ![a] = mFuture]
    /\ pc' = [pc EXCEPT ![a] = IF await_ready(mFuture) THEN "await_resume"
                                                       ELSE "await_suspend"]
    /\ UNCHANGED << futureVars, active, op, seen, outcome, synced,
                    watcherVars >>

\* await_suspend calling watcher->setFuture(mFuture) before the connects
AwaitSuspend_attachFirst(a) ==
    /\ pc[a] = "await_suspend"
    /\ watcher' = [watcher EXCEPT ![a] = "alive"]
    /\ done' = [done EXCEPT ![a] = "unset"]
    /\ attached' = [attached EXCEPT ![a] = TRUE]
    /\ pending' = [pending EXCEPT ![a] =
                     [ch \in Channels |->
                        IF (ch = "finished" /\ mFuture.isFinished)
                           \/ (ch = "canceled" /\ mFuture.isCanceled)
                        THEN 1 ELSE 0]]
    /\ pc' = [pc EXCEPT ![a] = "connect_finished"]
    /\ UNCHANGED << futureVars, awaitRest, conn, cb, wins, lost, returned,
                    deleteLater, resumed >>

\* await_suspend: new QFutureWatcher, make_shared<atomic<bool>>(false) and
\* the two empty Connection handles
AwaitSuspend(a) ==
    /\ pc[a] = "await_suspend"
    /\ watcher' = [watcher EXCEPT ![a] = "alive"]
    /\ done' = [done EXCEPT ![a] = "unset"]
    /\ pc' = [pc EXCEPT ![a] = "connect_finished"]
    /\ UNCHANGED << futureVars, awaitRest, attached, conn, pending, cb, wins,
                    lost, returned, deleteLater, resumed >>

\* *finished = QObject::connect(watcher, &QFutureWatcherBase::finished, ...)
ConnectFinished(a) ==
    /\ pc[a] = "connect_finished"
    /\ conn' = [conn EXCEPT ![a]["finished"] = "connected"]
    /\ pc' = [pc EXCEPT ![a] = "connect_canceled"]
    /\ UNCHANGED << futureVars, awaitRest, watcher, attached, done, pending,
                    cb, wins, lost, returned, deleteLater, resumed >>

\* await_suspend that does not subscribe to the canceled signal
ConnectCanceled_forgotten(a) ==
    /\ pc[a] = "connect_canceled"
    /\ pc' = [pc EXCEPT ![a] = "setFuture"]
    /\ UNCHANGED << futureVars, awaitRest, watcher, attached, done, pending,
                    conn, cb, wins, lost, returned, deleteLater, resumed >>

\* *canceled = QObject::connect(watcher, &QFutureWatcherBase::canceled, ...)
ConnectCanceled(a) ==
    /\ pc[a] = "connect_canceled"
    /\ conn' = [conn EXCEPT ![a]["canceled"] = "connected"]
    /\ pc' = [pc EXCEPT ![a] = "setFuture"]
    /\ UNCHANGED << futureVars, awaitRest, watcher, attached, done, pending,
                    cb, wins, lost, returned, deleteLater, resumed >>

\* watcher->setFuture(mFuture): the watcher is told the state the future is
\* in already, then the coroutine is suspended
SetFuture(a) ==
    /\ pc[a] = "setFuture"
    /\ attached' = [attached EXCEPT ![a] = TRUE]
    /\ pending' = [pending EXCEPT ![a] =
                     [ch \in Channels |->
                        IF (ch = "finished" /\ mFuture.isFinished)
                           \/ (ch = "canceled" /\ mFuture.isCanceled)
                        THEN 1 ELSE 0]]
    /\ pc' = [pc EXCEPT ![a] = "suspended"]
    /\ UNCHANGED << futureVars, awaitRest, watcher, done, conn, cb, wins,
                    lost, returned, deleteLater, resumed >>

\* the watcher emits the signal of channel ch: the slot runs if the
\* connection is in place, otherwise the emission has no receiver
Emit(a, ch) ==
    /\ watcher[a] = "alive"
    /\ pending[a][ch] > 0
    /\ cb[a][ch] = "idle"
    /\ pending' = [pending EXCEPT ![a][ch] = @ - 1]
    /\ cb' = [cb EXCEPT ![a][ch] = IF conn[a][ch] = "connected" THEN "cas"
                                                                ELSE "idle"]
    /\ UNCHANGED << futureVars, awaitVars, watcher, attached, done, conn,
                    wins, lost, returned, deleteLater, resumed >>

\* the signal source notifies the watcher again of a state already reached
Redeliver(a, ch) ==
    /\ attached[a] /\ watcher[a] = "alive"
    /\ \/ ch = "finished" /\ mFuture.isFinished
       \/ ch = "canceled" /\ mFuture.isCanceled
    /\ pending[a][ch] < MaxDeliver
    /\ \A b \in Awaits \ {a} : pc[b] = "idle"
    /\ pending' = [pending EXCEPT ![a][ch] = @ + 1]
    /\ UNCHANGED << futureVars, awaitVars, watcher, attached, done, conn, cb,
                    wins, lost, returned, deleteLater, resumed >>

\* ------------------------------------------------------ the resume lambda
\* the lambda without the latch: every run goes on to teardown and resume
CompareExchange_noLatch(a, ch) ==
    /\ cb[a][ch] = "cas"
    /\ done' = [done EXCEPT ![a] = "set"]
    /\ wins' = [wins EXCEPT ![a] = @ + 1]
    /\ cb' = [cb EXCEPT ![a][ch] = "disconnect_finished"]
    /\ UNCHANGED << futureVars, awaitVars, watcher, attached, conn, pending,
                    lost, returned, deleteLater, resumed >>

\* the lambda with one latch for all awaits of the future
CompareExchange_sharedLatch(a, ch) ==
    /\ cb[a][ch] = "cas"
    /\ IF \A b \in Awaits : done[b] # "set"
       THEN /\ done' = [done EXCEPT ![a] = "set"]
            /\ wins' = [wins EXCEPT ![a] = @ + 1]
            /\ cb' = [cb EXCEPT ![a][ch] = "disconnect_finished"]
            /\ UNCHANGED << lost, returned >>
       ELSE /\ cb' = [cb EXCEPT ![a][ch] = "idle"]
            /\ lost' = [lost EXCEPT ![a] = TRUE]
            /\ returned' = [returned EXCEPT ![a] = TRUE]
            /\ UNCHANGED << done, wins >>
    /\ UNCHANGED << futureVars, awaitVars, watcher, attached, conn, pending,
                    deleteLater, resumed >>

\* the lambda with the latch guarding resume() only: a run that finds the
\* latch set still goes through the teardown
CompareExchange_loserTearsDown(a, ch) ==
    /\ cb[a][ch] = "cas"
    /\ IF done[a] = "unset"
       THEN /\ done' = [done EXCEPT ![a] = "set"]
            /\ wins' = [wins EXCEPT ![a] = @ + 1]
            /\ UNCHANGED lost
       ELSE /\ lost' = [lost EXCEPT ![a] = TRUE]
            /\ UNCHANGED << done, wins >>
    /\ cb' = [cb EXCEPT ![a][ch] = "disconnect_finished"]
    /\ UNCHANGED << futureVars, awaitVars, watcher, attached, conn, pending,
                    returned, deleteLater, resumed >>

\* bool expected = false; if (!done->compare_exchange_strong(expected, true))
\* return;
CompareExchange(a, ch) ==
    /\ cb[a][ch] = "cas"
    /\ IF done[a] = "unset"
       THEN /\ done' = [done EXCEPT ![a] = "set"]
            /\ wins' = [wins EXCEPT ![a] = @ + 1]
            /\ cb' = [cb EXCEPT ![a][ch] = "disconnect_finished"]
            /\ UNCHANGED << lost, returned >>
       ELSE /\ cb' = [cb EXCEPT ![a][ch] = "idle"]
            /\ lost' = [lost EXCEPT ![a] = TRUE]
            /\ returned' = [returned EXCEPT ![a] = TRUE]
            /\ UNCHANGED << done, wins >>
    /\ UNCHANGED << futureVars, awaitVars, watcher, attached, conn, pending,
                    deleteLater, resumed >>

\* QObject::disconnect(*finished)
DisconnectFinished(a, ch) ==
    /\ cb[a][ch] = "disconnect_finished"
    /\ conn' = [conn EXCEPT ![a]["finished"] = "disconnected"]
    /\ cb' = [cb EXCEPT ![a][ch] = "disconnect_canceled"]
    /\ UNCHANGED << futureVars, awaitVars, watcher, attached, done, pending,
                    wins, lost, returned, deleteLater, resumed >>

\* the lambda resuming right after the disconnects, before deleteLater()
DisconnectCanceled_thenResume(a, ch) ==
    /\ cb[a][ch] = "disconnect_canceled"
    /\ conn' = [conn EXCEPT ![a]["canceled"] = "disconnected"]
    /\ resumed' = [resumed EXCEPT ![a] = @ + 1]
    /\ pc' = [pc EXCEPT ![a] = IF @ = "suspended" THEN "await_resume" ELSE @]
    /\ cb' = [cb EXCEPT ![a][ch] = "deleteLater"]
    /\ UNCHANGED << futureVars, awaitRest, watcher, attached, done, pending,
                    wins, lost, returned, deleteLater >>

\* QObject::disconnect(*canceled)
DisconnectCanceled(a, ch) ==
    /\ cb[a][ch] = "disconnect_canceled"
    /\ conn' = [conn EXCEPT ![a]["canceled"] = "disconnected"]
    /\ cb' = [cb EXCEPT ![a][ch] = "deleteLater"]
    /\ UNCHANGED << futureVars, awaitVars, watcher, attached, done, pending,
                    wins, lost, returned, deleteLater, resumed >>

\* the lambda without the deleteLater() call
DeleteLater_forgotten(a, ch) ==
    /\ cb[a][ch] = "deleteLater"
    /\ cb' = [cb EXCEPT ![a][ch] = "resume"]
    /\ UNCHANGED << futureVars, awaitVars, watcher, attached, done, conn,
                    pending, wins, lost, returned, deleteLater, resumed >>

\* the lambda deleting the watcher inline: delete watcher
DeleteLater_inline(a, ch) ==
    /\ cb[a][ch] = "deleteLater"
    /\ deleteLater' = [deleteLater EXCEPT ![a] = @ + 1]
    /\ watcher' = [watcher EXCEPT ![a] = "deleted"]
    /\ pending' = [pending EXCEPT ![a] = [c \in Channels |-> 0]]
    /\ cb' = [cb EXCEPT ![a][ch] = "resume"]
    /\ UNCHANGED << futureVars, awaitVars, attached, done, conn, wins, lost,
                    returned, resumed >>

\* watcher->deleteLater()
DeleteLater(a, ch) ==
    /\ cb[a][ch] = "deleteLater"
    /\ deleteLater' = [deleteLater EXCEPT ![a] = @ + 1]
    /\ cb' = [cb EXCEPT ![a][ch] = "resume"]
    /\ UNCHANGED << futureVars, awaitVars, watcher, attached, done, conn,
                    pending, wins, lost, returned, resumed >>

\* awaitingCoroutine.resume(): the last statement of the lambda
Resume(a, ch) ==
    /\ cb[a][ch] = "resume"
    /\ resumed' = [resumed EXCEPT ![a] = @ + 1]
    /\ pc' = [pc EXCEPT ![a] = IF @ = "suspended" THEN "await_resume" ELSE @]
    /\ cb' = [cb EXCEPT ![a][ch] = "idle"]
    /\ returned' = [returned EXCEPT ![a] = TRUE]
    /\ UNCHANGED << futureVars, awaitRest, watcher, attached, done, conn,
                    pending, wins, lost, deleteLater >>

\* the deferred delete scheduled by deleteLater() runs once control is back
\* in the event loop: the watcher and the events queued for it are gone
DeferredDelete(a) ==
    /\ watcher[a] = "alive"
    /\ deleteLater[a] > 0
    /\ \A ch \in Channels : cb[a][ch] = "idle"
    /\ watcher' = [watcher EXCEPT ![a] = "deleted"]
    /\ pending' = [pending EXCEPT ![a] = [ch \in Channels |-> 0]]
    /\ UNCHANGED << futureVars, awaitVars, attached, done, conn, cb, wins,
                    lost, returned, deleteLater, resumed >>

\* co_await evaluates await_resume of the operation and co_returns or throws
AwaitResume(a) ==
    /\ pc[a] = "await_resume"
    /\ seen' = [seen EXCEPT ![a] = mFuture]
    /\ outcome' = [outcome EXCEPT ![a] = await_resume(op[a], mFuture, TShape)]
    /\ synced' = [synced EXCEPT ![a] =
                    IF callsWaitForFinished(mFuture)
                    THEN IF mFuture.isFinished THEN "nonblocking"
                                               ELSE "blocking"
                    ELSE "no"]
    /\ mFuture' = future_after(op[a], mFuture)
    /\ pc' = [pc EXCEPT ![a] = "done"]
    /\ UNCHANGED << TShape, active, op, ready, checked, watcherVars >>

\* ------------------------------------------------------------------ Next
Producer ==
    \/ \E v \in Values : reportResult(v)
    \/ \E e \in Errors : reportException(e)
    \/ cancel
    \/ reportFinished

Coroutine(a) ==
    \/ waitForFinished(a)
    \/ result(a)
    \/ takeResult(a)
    \/ AwaitReady(a)
    \/ AwaitSuspend(a)
    \/ ConnectFinished(a)
    \/ ConnectCanceled(a)
    \/ SetFuture(a)
    \/ AwaitResume(a)

Slot(a, ch) ==
    \/ CompareExchange(a, ch)
    \/ DisconnectFinished(a, ch)
    \/ DisconnectCanceled(a, ch)
    \/ DeleteLater(a, ch)
    \/ Resume(a, ch)

EventLoop(a) ==
    \/ \E ch \in Channels : Emit(a, ch)
    \/ \E ch \in Channels : Redeliver(a, ch)
    \/ DeferredDelete(a)

Next ==
    \/ Producer
    \/ \E a \in Awaits : Coroutine(a)
    \/ \E a \in Awaits, ch \in Channels : Slot(a, ch)
    \/ \E a \in Awaits : EventLoop(a)

Spec == Init /\ [][Next]_vars

\* the coroutine runs on, the event loop of the watcher's thread dispatches
\* the queued call-outs and a started slot runs to its end; the producer is
\* free never to finish or cancel
Fairness ==
    /\ \A a \in Awaits :
          WF_vars(AwaitReady(a) \/ AwaitSuspend(a) \/ ConnectFinished(a)
                  \/ ConnectCanceled(a) \/ SetFuture(a) \/ AwaitResume(a))
    /\ \A a \in Awaits, ch \in Channels : WF_vars(Slot(a, ch))
    /\ \A a \in Awaits, ch \in Channels : WF_vars(Emit(a, ch))

FairSpec == Init /\ [][Next]_vars /\ Fairness

\* two await operations on the same future
InitTwo == InitCommon /\ active = Awaits

SpecTwo == InitTwo /\ [][Next]_vars

\* ================================================================ claims
InTeardown == {"disconnect_finished", "disconnect_canceled", "deleteLater",
               "resume"}

\* the run of the lambda that won the latch has returned
WinnerReturned(a) ==
    wins[a] > 0 /\ \A ch \in Channels : cb[a][ch] \notin InTeardown

\* C1 as stated: the coroutine of a suspended await is never resumed twice,
\* and it has been resumed once as soon as any run of the lambda has returned.
C1_ResumedOnceAnyCallbackReturned ==
    \A a \in Awaits :
        /\ resumed[a] <= 1
        /\ returned[a] => resumed[a] = 1

\* C1 amended: the coroutine of a suspended await is never resumed twice, it
\* is not resumed without a suspension, and it has been resumed once as soon
\* as the run of the lambda that won the latch has returned; a run that lost
\* the latch may return while the winner is still tearing down.
C1_ResumedExactlyOnce ==
    \A a \in Awaits :
        /\ resumed[a] <= 1
        /\ resumed[a] = 1 => ready[a] = "false"
        /\ WinnerReturned(a) => resumed[a] = 1

\* both channels fired for one suspended await: one run lost the latch, the
\* other resumed the coroutine
C1_RaceWitness ==
    ready[1] = "false" /\ lost[1] /\ resumed[1] = 1 /\ WinnerReturned(1)

\* C2: whenever resume() has been called, both connections are disconnected
\* and deleteLater() has been called, and no teardown statement of the lambda
\* is still to run: resume() is its last statement.
C2_TeardownBeforeResume ==
    \A a \in Awaits :
        /\ resumed[a] > 0 =>
              /\ conn[a]["finished"] = "disconnected"
              /\ conn[a]["canceled"] = "disconnected"
              /\ deleteLater[a] > 0
        /\ \A ch \in Channels : cb[a][ch] \in InTeardown => resumed[a] = 0

\* the winner has resumed the coroutine of await 1
C2_ResumedWitness ==
    resumed[1] = 1 /\ pc[1] = "await_resume" /\ deleteLater[1] = 1

\* C3: await_ready returns true exactly when the future it looks at is
\* finished or canceled; after true the await has no watcher, no latch, no
\* connection and no resume and is at or past await_resume; after false the
\* await goes through await_suspend.
C3_ReadyCheck ==
    \A a \in Awaits :
        /\ ready[a] = "true" <=>
              /\ ready[a] # "unknown"
              /\ checked[a].isFinished \/ checked[a].isCanceled
        /\ ready[a] = "true" =>
              /\ watcher[a] = "none" /\ done[a] = "none" /\ ~attached[a]
              /\ \A ch \in Channels : conn[a][ch] = "none" /\ pending[a][ch] = 0
              /\ resumed[a] = 0
              /\ pc[a] \in {"await_resume", "done"}
        /\ ready[a] = "false" /\ pc[a] \in {"await_resume", "done"} =>
              resumed[a] > 0

\* a canceled, unfinished future was awaited and extraction ran at once
C3_ReadyWitness ==
    /\ ready[1] = "true" /\ pc[1] = "done" /\ watcher[1] = "none"
    /\ checked[1].isCanceled /\ ~checked[1].isFinished

\* the outcomes await_resume can end in
Terminal == {"Value", "Void", "Default", "ResultNotReady", "InvalidOrCanceled",
             "Propagated"}

\* await a went from await_resume to its outcome in this step
Extracts(a) == pc[a] = "await_resume" /\ pc'[a] = "done"

\* C4: once the future of an await whose ready-check was false is finished or
\* canceled, the coroutine is eventually resumed (once) and the await ends
\* in a terminal outcome; a finished future holding result V gives Value V
\* (no value and no failure for void).
C4_EventuallyResumed ==
    /\ \A a \in Awaits :
          (ready[a] = "false" /\ (mFuture.isFinished \/ mFuture.isCanceled))
             ~> (pc[a] = "done" /\ resumed[a] = 1)
    /\ [](\A a \in Awaits :
            pc[a] = "done" =>
              /\ outcome[a].kind \in Terminal
              /\ (seen[a].isFinished /\ seen[a].resultReady) =>
                    outcome[a] = [kind |-> "Value", val |-> seen[a].result])

\* a pending future was awaited, the producer stored 1 and finished, and the
\* resumed await returned 1
C4_ValueWitness ==
    /\ ready[1] = "false" /\ pc[1] = "done" /\ resumed[1] = 1
    /\ ~seen[1].isCanceled
    /\ outcome[1] = [kind |-> "Value", val |-> 1]

\* C5: result() and waitForFinished() on a non-void future that the
\* ready-check found finished with result V do not suspend and return V, and
\* their await_resume leaves the future as it was.
C5_CopyResult ==
    /\ [](\A a \in Awaits :
            (/\ pc[a] = "done" /\ op[a] \in {"result", "waitForFinished"}
             /\ TShape # "void"
             /\ checked[a].isFinished /\ checked[a].resultReady)
            => /\ ready[a] = "true" /\ watcher[a] = "none" /\ resumed[a] = 0
               /\ outcome[a] = [kind |-> "Value", val |-> checked[a].result])
    /\ [][\A a \in Awaits :
            Extracts(a) /\ op[a] \in {"result", "waitForFinished"}
            => mFuture' = mFuture]_vars

\* result() returned 1 from a future that was finished before the await and
\* the future still holds 1
C5_PreFinishedWitness ==
    /\ pc[1] = "done" /\ op[1] = "result" /\ ready[1] = "true"
    /\ checked[1].isFinished /\ checked[1].result = 1
    /\ outcome[1] = [kind |-> "Value", val |-> 1]
    /\ mFuture.resultReady /\ mFuture.result = 1

\* C6: with a default-constructible T, an await whose await_resume finds the
\* future canceled and not finished returns T{} and does not throw.
C6_CanceledGivesDefault ==
    \A a \in Awaits :
        (/\ pc[a] = "done" /\ TShape = "dc"
         /\ seen[a].isCanceled /\ ~seen[a].isFinished)
        => outcome[a] = [kind |-> "Default", val |-> DefaultValue]

\* the canceled signal resumed a suspended result() and it returned T{}
C6_DefaultWitness ==
    /\ TShape = "dc" /\ op[1] = "result" /\ ready[1] = "false"
    /\ pc[1] = "done" /\ resumed[1] = 1
    /\ outcome[1] = [kind |-> "Default", val |-> DefaultValue]

\* C7: with a T that is not default-constructible, an await whose
\* await_resume finds the future canceled and not finished throws
\* "QFuture was invalid or canceled" and returns no value.
C7_CanceledThrows ==
    \A a \in Awaits :
        (/\ pc[a] = "done" /\ TShape = "ndc"
         /\ seen[a].isCanceled /\ ~seen[a].isFinished)
        => outcome[a] = [kind |-> "InvalidOrCanceled", val |-> 0]

\* result() on a future canceled before the await threw InvalidOrCanceled
C7_ThrowWitness ==
    /\ TShape = "ndc" /\ op[1] = "result" /\ ready[1] = "true"
    /\ pc[1] = "done" /\ checked[1].isCanceled
    /\ outcome[1].kind = "InvalidOrCanceled"

\* C8 as stated: for a non-void T, an await whose await_resume finds the
\* future finished with no result throws "QFuture finished without a
\* result", whatever T and whatever the entry point.
C8_FinishedWithoutResultThrowsNotReady ==
    \A a \in Awaits :
        (/\ pc[a] = "done" /\ TShape # "void"
         /\ seen[a].isFinished /\ ~seen[a].resultReady)
        => outcome[a].kind = "ResultNotReady"

\* C8 amended: for a non-void T, an await whose await_resume finds the
\* future finished with no result throws: the exception the producer stored
\* if there is one, "QFuture finished without a result" otherwise; T{} is
\* never returned in this case, whatever T and whatever the entry point.
C8_FinishedWithoutResultThrows ==
    \A a \in Awaits :
        (/\ pc[a] = "done" /\ TShape # "void"
         /\ seen[a].isFinished /\ ~seen[a].resultReady)
        => outcome[a] = IF seen[a].exception # NoError
                        THEN [kind |-> "Propagated", val |-> seen[a].exception]
                        ELSE [kind |-> "ResultNotReady", val |-> 0]

\* a default-constructible T: the future finished with neither result nor
\* exception and the await threw ResultNotReady
C8_NotReadyWitness ==
    /\ TShape = "dc" /\ pc[1] = "done"
    /\ seen[1].isFinished /\ ~seen[1].resultReady
    /\ seen[1].exception = NoError
    /\ outcome[1].kind = "ResultNotReady"

\* C9: an await on a void future whose await_resume finds it finished
\* re-throws the stored exception if there is one, and otherwise completes
\* with no value and no failure; the coroutine was resumed at most once, so
\* the exception is thrown once.
C9_VoidRethrows ==
    \A a \in Awaits :
        (pc[a] = "done" /\ TShape = "void" /\ seen[a].isFinished)
        => /\ resumed[a] <= 1
           /\ outcome[a] = IF seen[a].exception # NoError
                           THEN [kind |-> "Propagated",
                                 val |-> seen[a].exception]
                           ELSE [kind |-> "Void", val |-> 0]

\* a suspended waitForFinished() on a void future was resumed once and
\* re-threw the stored exception
C9_RethrowWitness ==
    /\ TShape = "void" /\ op[1] = "waitForFinished" /\ ready[1] = "false"
    /\ pc[1] = "done" /\ resumed[1] = 1
    /\ seen[1].isFinished /\ seen[1].exception = 1
    /\ outcome[1] = [kind |-> "Propagated", val |-> 1]

\* C10: takeResult() has the ready-check of result() and ends in the outcome
\* result() ends in on the same future; its await_resume changes the future
\* only on a Value outcome, where the result is moved out.
C10_TakeResultLikeResult ==
    /\ [](\A a \in Awaits :
            op[a] = "takeResult" =>
              /\ ready[a] # "unknown" =>
                    (ready[a] = "true" <=>
                       (checked[a].isFinished \/ checked[a].isCanceled))
              /\ pc[a] = "done" =>
                    outcome[a] = ImplT_await_resume(seen[a], TShape))
    /\ [][\A a \in Awaits :
            Extracts(a) /\ op[a] = "takeResult"
            => mFuture' = IF outcome'[a].kind = "Value"
                          THEN [mFuture EXCEPT !.resultReady = FALSE,
                                               !.result = 0]
                          ELSE mFuture]_vars

\* a suspended takeResult() returned 1 and the future no longer holds it
C10_MovedWitness ==
    /\ op[1] = "takeResult" /\ ready[1] = "false" /\ pc[1] = "done"
    /\ outcome[1] = [kind |-> "Value", val |-> 1]
    /\ seen[1].resultReady /\ ~mFuture.resultReady

\* C11: a waitForFinished() and a result() on the same future whose
\* ready-checks find the same future agree on suspending, and when their
\* await_resume find the same future they end in the same outcome after the
\* same synchronization; each is resumed once if and only if it suspended.
C11_WaitForFinishedIsResult ==
    \A a, b \in Awaits :
        (op[a] = "waitForFinished" /\ op[b] = "result") =>
          /\ (ready[a] # "unknown" /\ ready[b] # "unknown"
              /\ checked[a] = checked[b]) => ready[a] = ready[b]
          /\ (pc[a] = "done" /\ pc[b] = "done" /\ seen[a] = seen[b]) =>
                /\ outcome[a] = outcome[b]
                /\ synced[a] = synced[b]
          /\ \A x \in {a, b} :
                pc[x] = "done" => (resumed[x] = 1 <=> ready[x] = "false")

\* a waitForFinished() and a result() suspended on the pending future, the
\* producer stored 1 and finished, and both returned 1
C11_SideBySideWitness ==
    /\ op[1] = "waitForFinished" /\ op[2] = "result"
    /\ ready[1] = "false" /\ ready[2] = "false"
    /\ pc[1] = "done" /\ pc[2] = "done" /\ seen[1] = seen[2]
    /\ outcome[1] = [kind |-> "Value", val |-> 1] /\ outcome[2] = outcome[1]

\* a step of the adapter: the coroutine, the lambda or the watcher of some
\* await moves
AdapterStep ==
    \/ pc' # pc \/ cb' # cb \/ watcher' # watcher \/ done' # done
    \/ conn' # conn \/ attached' # attached

\* the await_resume of a takeResult() that returns the result
TakesValue(a) ==
    Extracts(a) /\ op[a] = "takeResult" /\ outcome'[a].kind = "Value"

\* C12 as stated: no step of the adapter changes the future.
C12_AdapterNeverMutates ==
    [][AdapterStep => mFuture' = mFuture]_vars

\* C12 amended: the only step of the adapter that changes the future is the
\* await_resume of takeResult() returning the result, which moves the stored
\* result out and leaves the finished and canceled state as it is; every
\* other step, the extraction of result() and waitForFinished() included,
\* leaves the future unchanged.
C12_OnlyTakeResultMutates ==
    [][AdapterStep =>
         IF \E a \in Awaits : TakesValue(a)
         THEN mFuture' = [mFuture EXCEPT !.resultReady = FALSE, !.result = 0]
         ELSE mFuture' = mFuture]_vars

\* result() returned the stored 1 after being resumed and the future still
\* holds it
C12_UntouchedWitness ==
    /\ op[1] = "result" /\ pc[1] = "done" /\ resumed[1] = 1
    /\ outcome[1] = [kind |-> "Value", val |-> 1]
    /\ mFuture.resultReady /\ mFuture.result = 1 /\ mFuture = seen[1]

\* a run of the lambda on channel ch finds the latch set
Loses(a, ch) == cb[a][ch] = "cas" /\ done[a] = "set" /\ cb'[a][ch] # "cas"

\* C13: a run of the lambda that finds the latch set returns at once and
\* changes nothing: connections, watcher, deleteLater() and resume() counts,
\* latch, coroutine and future stay as they are; the latch only goes from
\* unset to set and at most one compare_exchange_strong succeeds per await.
C13_LoserDoesNothing ==
    /\ [][\A a \in Awaits, ch \in Channels :
            Loses(a, ch) =>
              /\ cb' = [cb EXCEPT ![a][ch] = "idle"]
              /\ UNCHANGED << futureVars, awaitVars, watcher, attached, done,
                              conn, pending, wins, deleteLater, resumed >>]_vars
    /\ [][\A a \in Awaits :
            done'[a] # done[a] =>
              \/ done[a] = "none" /\ done'[a] = "unset"
              \/ done[a] = "unset" /\ done'[a] = "set"]_vars
    /\ [](\A a \in Awaits : wins[a] <= 1 /\ (wins[a] = 1 <=> done[a] = "set"))

\* a run lost the latch while the winner was still tearing down
C13_LoserWitness ==
    /\ lost[1] /\ wins[1] = 1 /\ resumed[1] = 0
    /\ \E ch \in Channels : cb[1][ch] = "disconnect_canceled"

\* both connections of await a are disconnected
TornDown(a) == \A ch \in Channels : conn[a][ch] = "disconnected"

\* C14: deleteLater() is called by the winner only and after both
\* disconnects, the call itself does not destroy the watcher, and the watcher
\* is destroyed only when none of its slots is running, after the winner
\* disconnected both connections.
C14_DeferredDisposal ==
    /\ [](\A a \in Awaits :
            /\ deleteLater[a] <= wins[a]
            /\ deleteLater[a] > 0 => TornDown(a)
            /\ watcher[a] = "deleted" =>
                  /\ deleteLater[a] = 1 /\ TornDown(a)
                  /\ \A ch \in Channels : cb[a][ch] = "idle")
    /\ [][\A a \in Awaits :
            deleteLater'[a] # deleteLater[a] => watcher'[a] = watcher[a]]_vars
    /\ [][\A a \in Awaits :
            (watcher[a] # "deleted" /\ watcher'[a] = "deleted") =>
              /\ watcher[a] = "alive"
              /\ \A ch \in Channels : cb[a][ch] = "idle"]_vars

\* both channels fired, the winner resumed the coroutine and the watcher was
\* deleted afterwards
C14_DeletedWitness ==
    watcher[1] = "deleted" /\ lost[1] /\ resumed[1] = 1 /\ TornDown(1)

\* C15: await_resume never runs on a pending future: an await that is at
\* await_resume has a finished or canceled future before it, and every
\* await_resume that ran found the future finished or canceled.
C15_ExtractionNeverPending ==
    \A a \in Awaits :
        /\ pc[a] = "await_resume" => mFuture.isFinished \/ mFuture.isCanceled
        /\ pc[a] = "done" => seen[a].isFinished \/ seen[a].isCanceled

\* the canceled signal resumed a suspended await and await_resume found the
\* future canceled and not finished
C15_ResumedCanceledWitness ==
    /\ ready[1] = "false" /\ pc[1] = "done"
    /\ seen[1].isCanceled /\ ~seen[1].isFinished

\* C16: mFuture.waitForFinished() is called by await_resume only, only on a
\* finished future, so it never blocks; it is not called on a future that is
\* canceled and not finished, nor before await_resume.
C16_SyncNeverBlocks ==
    \A a \in Awaits :
        /\ synced[a] # "blocking"
        /\ synced[a] = "nonblocking" => pc[a] = "done" /\ seen[a].isFinished
        /\ pc[a] = "done" /\ ~seen[a].isFinished => synced[a] = "no"
        /\ pc[a] # "done" => synced[a] = "no"

\* a resumed await called waitForFinished() on the finished future
C16_SyncedWitness ==
    /\ ready[1] = "false" /\ pc[1] = "done" /\ synced[1] = "nonblocking"
    /\ seen[1].isFinished /\ ~seen[1].isCanceled

\* a suspended await that has not been resumed has a slot running or a
\* queued call-out whose connection is in place and whose latch is unset
CanProgress(a) ==
    \E ch \in Channels :
        \/ cb[a][ch] # "idle"
        \/ /\ pending[a][ch] > 0 /\ conn[a][ch] = "connected"
           /\ done[a] = "unset" /\ watcher[a] = "alive"

\* what belongs to await a: coroutine, watcher, latch, connections, slots
Own(a) ==
    << pc[a], ready[a], watcher[a], attached[a], done[a], conn[a], cb[a],
       wins[a], deleteLater[a], resumed[a] >>

\* C17: with two awaits on the same future, a step of one await's coroutine
\* or lambda leaves the other await's coroutine, watcher, latch, connections
\* and slots as they are; each await is resumed at most once, only by its own
\* winner, and an attached await that is not yet resumed is never left
\* without a way to its resume once the future is finished or canceled.
C17_PerAwaitLatch ==
    /\ [](\A a \in Awaits :
            /\ resumed[a] <= 1 /\ wins[a] <= 1
            /\ resumed[a] = 1 => wins[a] = 1 /\ ready[a] = "false"
            /\ WinnerReturned(a) => resumed[a] = 1
            /\ (/\ attached[a] /\ resumed[a] = 0
                /\ mFuture.isFinished \/ mFuture.isCanceled)
               => CanProgress(a))
    /\ [][\A a, b \in Awaits :
            (a # b /\ (pc'[a] # pc[a] \/ cb'[a] # cb[a]))
            => /\ Own(b)' = Own(b)
               /\ pending'[b] = pending[b]]_vars

\* two awaits suspended on the same future and each was resumed once by its
\* own winner
C17_BothResumedWitness ==
    /\ ready[1] = "false" /\ ready[2] = "false"
    /\ resumed[1] = 1 /\ resumed[2] = 1 /\ wins[1] = 1 /\ wins[2] = 1
    /\ pc[1] = "done" /\ pc[2] = "done"

\* C18 as stated: for a non-void T the outcome follows isFinished() as
\* await_resume finds it: finished gives the result if one is stored and
\* ResultNotReady if not, canceled or not; Default and InvalidOrCanceled
\* occur exactly when the future is not finished.
C18_FinishedDecidesResultOrNotReady ==
    \A a \in Awaits :
        (pc[a] = "done" /\ TShape # "void") =>
          /\ seen[a].isFinished =>
                outcome[a] = IF seen[a].resultReady
                             THEN [kind |-> "Value", val |-> seen[a].result]
                             ELSE [kind |-> "ResultNotReady", val |-> 0]
          /\ outcome[a].kind \in {"Default", "InvalidOrCanceled"}
                <=> ~seen[a].isFinished

\* C18 amended: for a non-void T the outcome follows isFinished() as
\* await_resume finds it: finished gives, canceled or not, the stored
\* exception if there is one, else the result if one is stored, else
\* ResultNotReady; Default and InvalidOrCanceled occur exactly when the
\* future is not finished.
C18_FinishedDecides ==
    \A a \in Awaits :
        (pc[a] = "done" /\ TShape # "void") =>
          /\ seen[a].isFinished =>
                outcome[a] =
                  IF seen[a].exception # NoError
                  THEN [kind |-> "Propagated", val |-> seen[a].exception]
                  ELSE IF seen[a].resultReady
                       THEN [kind |-> "Value", val |-> seen[a].result]
                       ELSE [kind |-> "ResultNotReady", val |-> 0]
          /\ outcome[a].kind \in {"Default", "InvalidOrCanceled"}
                <=> ~seen[a].isFinished

\* await_resume found the future canceled and finished with result 1 and
\* returned 1
C18_CanceledAndFinishedWitness ==
    /\ pc[1] = "done" /\ seen[1].isCanceled /\ seen[1].isFinished
    /\ seen[1].resultReady
    /\ outcome[1] = [kind |-> "Value", val |-> 1]

\* the future is in the state channel ch signals
Signalled(ch) ==
    \/ ch = "finished" /\ mFuture.isFinished
    \/ ch = "canceled" /\ mFuture.isCanceled

\* await a is inside await_suspend
Registering(a) ==
    pc[a] \in {"await_suspend", "connect_finished", "connect_canceled",
               "setFuture"}

\* C19: whenever the watcher is attached and the latch unset, both
\* connections are in place; setFuture queues a call-out on a connected
\* channel for every state the future has reached by then, an attached await
\* that is not resumed always has a way to its resume once the future is
\* finished or canceled, and a future that is finished or canceled while the
\* await is inside await_suspend leads to exactly one resume.
C19_NoLostWakeup ==
    /\ [](\A a \in Awaits :
            /\ (attached[a] /\ done[a] = "unset") =>
                  \A ch \in Channels : conn[a][ch] = "connected"
            /\ (/\ attached[a] /\ resumed[a] = 0
                /\ mFuture.isFinished \/ mFuture.isCanceled)
               => CanProgress(a)
            /\ resumed[a] <= 1)
    /\ [][\A a \in Awaits :
            (pc[a] = "setFuture" /\ pc'[a] = "suspended") =>
              \A ch \in Channels :
                Signalled(ch) =>
                  pending'[a][ch] > 0 /\ conn'[a][ch] = "connected"]_vars
    /\ \A a \in Awaits :
          (Registering(a) /\ (mFuture.isFinished \/ mFuture.isCanceled))
             ~> (resumed[a] = 1)

\* the ready-check found the future pending, the future finished while
\* await_suspend had connected both slots and not yet called setFuture
C19_FinishedDuringRegistrationWitness ==
    /\ ready[1] = "false" /\ pc[1] = "setFuture" /\ ~attached[1]
    /\ ~checked[1].isFinished /\ ~checked[1].isCanceled
    /\ mFuture.isFinished
    /\ \A ch \in Channels : conn[1][ch] = "connected"

\* the await has gone through the allocation in await_suspend
Allocated(a) ==
    ready[a] = "false" /\ pc[a] # "await_suspend"

\* C20 as stated: an await has a watcher exactly if it went through
\* await_suspend, the deleteLater() count always equals the resume() count
\* and never exceeds 1, and while the future is neither finished nor
\* canceled an attached await stays suspended with its watcher alive and
\* both connections in place.
C20_DisposalsEqualResumes ==
    \A a \in Awaits :
        /\ watcher[a] # "none" <=> Allocated(a)
        /\ deleteLater[a] = resumed[a]
        /\ deleteLater[a] <= 1
        /\ (attached[a] /\ ~mFuture.isFinished /\ ~mFuture.isCanceled) =>
              /\ pc[a] = "suspended" /\ watcher[a] = "alive"
              /\ deleteLater[a] = 0
              /\ \A ch \in Channels : conn[a][ch] = "connected"

\* C20 amended: an await has a watcher exactly if it went through
\* await_suspend; the deleteLater() count never exceeds 1 and equals the
\* resume() count except while the winner is between deleteLater() and
\* resume(), where it is 1 and the resume() count still 0; once the winner
\* has returned both are 1; deleteLater() is only called once the future is
\* finished or canceled, and while it is neither an attached await stays
\* suspended with its watcher alive and both connections in place.
C20_WatcherAccounting ==
    \A a \in Awaits :
        /\ watcher[a] # "none" <=> Allocated(a)
        /\ deleteLater[a] <= 1
        /\ deleteLater[a] =
              IF \E ch \in Channels : cb[a][ch] = "resume"
              THEN resumed[a] + 1 ELSE resumed[a]
        /\ WinnerReturned(a) => deleteLater[a] = 1 /\ resumed[a] = 1
        /\ deleteLater[a] > 0 => mFuture.isFinished \/ mFuture.isCanceled
        /\ (attached[a] /\ ~mFuture.isFinished /\ ~mFuture.isCanceled) =>
              /\ pc[a] = "suspended" /\ watcher[a] = "alive"
              /\ deleteLater[a] = 0
              /\ \A ch \in Channels : conn[a][ch] = "connected"

\* the winner has returned: one watcher, one deleteLater(), one resume()
C20_ReleasedWitness ==
    /\ WinnerReturned(1) /\ watcher[1] = "alive"
    /\ deleteLater[1] = 1 /\ resumed[1] = 1 /\ pc[1] = "done"

====
